---- MODULE Spec2Model ----
(***************************************************************************)
(* Model of git-odb/src/object/parsed.rs: the parser of annotated tag      *)
(* objects (Tag::from_bytes) with its helpers split2_at_space,             *)
(* parse_timezone_offset, parse_signature and parse_message.               *)
(*                                                                         *)
(* A byte buffer is a sequence of naturals in 0..255.  Rust slices are     *)
(* 0-based and half open; Slice(d, a, b) is &d[a..b].  Every operation     *)
(* returns a record whose field "kind" is "ok", "err" (an Error value) or  *)
(* "panic" (abnormal termination: a failed expect, an out-of-range slice   *)
(* index, an arithmetic overflow in a build with overflow checks).         *)
(***************************************************************************)
EXTENDS Integers, Sequences, FiniteSets, TLC

VARIABLES d, overflow_checks, pc, result, id

vars == <<d, overflow_checks, pc, result, id>>

----------------------------------------------------------------------------
(* Bytes the source names as literals.                                     *)

SP == 32
LF == 10
LT == 60
GT == 62
PLUS == 43
MINUS == 45
ONE_SPACE == 1
HexLen == 40
IdLen == 20
TzMinLen == 5
HoursLen == 3

KwObject == <<111, 98, 106, 101, 99, 116>>
KwType == <<116, 121, 112, 101>>
KwTag == <<116, 97, 103>>
KwTagger == <<116, 97, 103, 103, 101, 114>>

PGP_SIGNATURE_BEGIN == <<45, 45, 45, 45, 45, 66, 69, 71, 73, 78, 32, 80, 71, 80, 32, 83, 73, 71, 78, 65, 84, 85, 82, 69, 45, 45, 45, 45, 45>>
PGP_SIGNATURE_END == <<45, 45, 45, 45, 45, 69, 78, 68, 32, 80, 71, 80, 32, 83, 73, 71, 78, 65, 84, 85, 82, 69, 45, 45, 45, 45, 45>>

----------------------------------------------------------------------------
(* Results.                                                                *)

ParseError(msg, kind) == [kind |-> "err", variant |-> "ParseError", msg |-> msg, bytes |-> kind]

ObjectKindError(kind) == [kind |-> "err", variant |-> "ObjectKind", msg |-> "object::Error", bytes |-> kind]

Panic(what) == [kind |-> "panic", msg |-> what]

Ok(v) == [kind |-> "ok", val |-> v]

None == [some |-> FALSE, val |-> <<>>]

Some(v) == [some |-> TRUE, val |-> v]

----------------------------------------------------------------------------
(* Slices and iterators.                                                   *)

\* &d[a..b]; the caller has established a <= b <= Len(d)
Slice(s, a, b) == SubSeq(s, a + 1, b)

\* &d[a..]
SliceFrom(s, a) == SubSeq(s, a + 1, Len(s))

\* whether &d[a..b] is in range (otherwise the index operation panics)
InRange(s, a, b) == a <= b /\ b <= Len(s)

\* iter().position(|&b| b == c): 0-based index of the first c, or -1 for None
Position(s, c) == IF \E i \in 1..Len(s) : s[i] = c THEN (CHOOSE i \in 1..Len(s) : s[i] = c /\ \A j \in 1..(i - 1) : s[j] # c) - 1 ELSE -1

\* l.starts_with(p)
StartsWith(l, p) == Len(l) >= Len(p) /\ SubSeq(l, 1, Len(p)) = p

RECURSIVE Split(_, _)
\* d.split(|&b| b == c), collected: always at least one piece
Split(s, c) == LET p == Position(s, c) IN IF p < 0 THEN <<s>> ELSE <<Slice(s, 0, p)>> \o Split(SliceFrom(s, p + 1), c)

\* lines.find(pred): 1-based index in ls of the first line starting with p, or 0
FindLine(ls, p) == IF \E i \in 1..Len(ls) : StartsWith(ls[i], p) THEN CHOOSE i \in 1..Len(ls) : StartsWith(ls[i], p) /\ \A j \in 1..(i - 1) : ~StartsWith(ls[j], p) ELSE 0

----------------------------------------------------------------------------
(* str::from_utf8 and str::parse as the source uses them.                  *)

I32Max == 2147483647
I32Min == -2147483647 - 1
Limb == 65536

IsCont(b) == b >= 128 /\ b <= 191

\* the byte length of the well-formed UTF-8 sequence that starts s at 1-based i, or 0
Utf8Width(s, i) == LET b == s[i]
                       n == Len(s) - i + 1
                       c(k) == IsCont(s[i + k]) IN
                   IF b < 128 THEN 1
                   ELSE IF b >= 194 /\ b <= 223 THEN (IF n >= 2 /\ c(1) THEN 2 ELSE 0)
                   ELSE IF b = 224 THEN (IF n >= 3 /\ s[i + 1] >= 160 /\ s[i + 1] <= 191 /\ c(2) THEN 3 ELSE 0)
                   ELSE IF b = 237 THEN (IF n >= 3 /\ s[i + 1] >= 128 /\ s[i + 1] <= 159 /\ c(2) THEN 3 ELSE 0)
                   ELSE IF b >= 225 /\ b <= 239 THEN (IF n >= 3 /\ c(1) /\ c(2) THEN 3 ELSE 0)
                   ELSE IF b = 240 THEN (IF n >= 4 /\ s[i + 1] >= 144 /\ s[i + 1] <= 191 /\ c(2) /\ c(3) THEN 4 ELSE 0)
                   ELSE IF b = 244 THEN (IF n >= 4 /\ s[i + 1] >= 128 /\ s[i + 1] <= 143 /\ c(2) /\ c(3) THEN 4 ELSE 0)
                   ELSE IF b >= 241 /\ b <= 243 THEN (IF n >= 4 /\ c(1) /\ c(2) /\ c(3) THEN 4 ELSE 0)
                   ELSE 0

RECURSIVE Utf8From(_, _)
Utf8From(s, i) == IF i > Len(s) THEN TRUE ELSE LET w == Utf8Width(s, i) IN IF w = 0 THEN FALSE ELSE Utf8From(s, i + w)

\* str::from_utf8(s).is_ok()
IsUtf8(s) == Utf8From(s, 1)

IsDigit(b) == b >= 48 /\ b <= 57

RECURSIVE AccI32(_, _, _, _)
\* the digit loop of i32::from_str: checked_mul(10) then checked_add/checked_sub
AccI32(s, i, acc, positive) == IF i > Len(s) THEN [ok |-> TRUE, val |-> acc]
                               ELSE IF ~IsDigit(s[i]) THEN [ok |-> FALSE, val |-> 0]
                               ELSE LET dg == s[i] - 48
                                        lim == I32Min + dg
                                        low == IF (lim % 10) = 0 THEN (lim \div 10) ELSE (lim \div 10) + 1 IN
                                    IF positive
                                    THEN (IF acc > (I32Max - dg) \div 10 THEN [ok |-> FALSE, val |-> 0] ELSE AccI32(s, i + 1, acc * 10 + dg, positive))
                                    ELSE (IF acc < low THEN [ok |-> FALSE, val |-> 0] ELSE AccI32(s, i + 1, acc * 10 - dg, positive))

\* s.parse::<i32>(): an optional '+' or '-', then one or more decimal digits, in range
ParseI32(s) == IF Len(s) = 0 THEN [ok |-> FALSE, val |-> 0]
               ELSE LET signed == s[1] = PLUS \/ s[1] = MINUS
                        digits == IF signed THEN SliceFrom(s, 1) ELSE s IN
                    IF Len(digits) = 0 THEN [ok |-> FALSE, val |-> 0] ELSE AccI32(digits, 1, 0, s[1] # MINUS)

RECURSIVE AccU32(_, _, _, _)
\* the digit loop of u32::from_str; the value is kept as two 16-bit limbs hi, lo
AccU32(s, i, hi, lo) == IF i > Len(s) THEN [ok |-> TRUE, hi |-> hi, lo |-> lo]
                        ELSE IF ~IsDigit(s[i]) THEN [ok |-> FALSE, hi |-> 0, lo |-> 0]
                        ELSE LET l == lo * 10 + (s[i] - 48)
                                 h == hi * 10 + (l \div Limb) IN
                             IF h >= Limb THEN [ok |-> FALSE, hi |-> 0, lo |-> 0] ELSE AccU32(s, i + 1, h, l % Limb)

\* s.parse::<u32>(): an optional '+' (no '-'), then one or more decimal digits, in range
ParseU32(s) == IF Len(s) = 0 THEN [ok |-> FALSE, hi |-> 0, lo |-> 0]
               ELSE LET digits == IF s[1] = PLUS THEN SliceFrom(s, 1) ELSE s IN
                    IF Len(digits) = 0 THEN [ok |-> FALSE, hi |-> 0, lo |-> 0] ELSE AccU32(digits, 1, 0, 0)

\* the i32 whose two's complement bits are the limbs hi, lo
FromLimbs(hi, lo) == IF hi >= Limb \div 2 THEN (hi - Limb) * Limb + lo ELSE hi * Limb + lo

\* hours * 3600 + minutes * 60 reduced modulo 2^32 (wrapping arithmetic)
WrappingOffset(hours, minutes) == LET q == minutes \div Limb
                                      r == minutes % Limb
                                      p == 60 * r
                                      h1 == (((60 * q) % Limb) + (p \div Limb)) % Limb
                                      l2 == (p % Limb) + hours * 3600
                                      h3 == (h1 + (l2 \div Limb)) % Limb IN
                                  FromLimbs(h3, l2 % Limb)

\* whether minutes * 60, or the sum with hours * 3600, leaves the range of i32
OffsetOverflows(hours, minutes) == \/ minutes > I32Max \div 60
                                   \/ minutes < -(I32Max \div 60)
                                   \/ (hours > 0 /\ minutes * 60 > I32Max - hours * 3600)
                                   \/ (hours < 0 /\ minutes * 60 < I32Min - hours * 3600)

\* fn parse_timezone_offset(d: &str) -> Result<(i32, Sign), Error>
parse_timezone_offset(s) == IF Len(s) < TzMinLen \/ ~(s[1] = PLUS \/ s[1] = MINUS) THEN ParseError("invalid timezone offset", s)
                            ELSE LET sign == IF s[1] = MINUS THEN "Minus" ELSE "Plus"
                                     hs == Slice(s, 0, HoursLen)
                                     ms == SliceFrom(s, HoursLen)
                                     hours == ParseI32(hs)
                                     minutes == ParseI32(ms) IN
                                 IF ~IsUtf8(hs) THEN Panic("valid utf8")
                                 ELSE IF ~hours.ok THEN ParseError("invalid 'hours' string", hs)
                                 ELSE IF ~IsUtf8(ms) THEN Panic("valid utf8")
                                 ELSE IF ~minutes.ok THEN ParseError("invalid 'minutes' string", ms)
                                 ELSE IF OffsetOverflows(hours.val, minutes.val)
                                 THEN (IF overflow_checks THEN Panic("attempt to multiply with overflow") ELSE Ok([offset |-> WrappingOffset(hours.val, minutes.val), sign |-> sign]))
                                 ELSE Ok([offset |-> hours.val * 3600 + minutes.val * 60, sign |-> sign])

----------------------------------------------------------------------------
(* Collaborators: the hex decoder and the object-kind decoder.             *)

IsHexDigit(b) == IsDigit(b) \/ (b >= 97 /\ b <= 102) \/ (b >= 65 /\ b <= 70)

\* the value of one hex digit
HexVal(b) == IF IsDigit(b) THEN b - 48 ELSE IF b >= 97 THEN b - 87 ELSE b - 55

\* <[u8; 20]>::from_hex(v): the 20 decoded bytes, or an error
FromHex(v) == IF Len(v) # 2 * IdLen \/ \E i \in 1..Len(v) : ~IsHexDigit(v[i]) THEN [kind |-> "err", variant |-> "FromHexError", msg |-> "", bytes |-> v]
              ELSE Ok([i \in 1..IdLen |-> HexVal(v[2 * i - 1]) * 16 + HexVal(v[2 * i])])

KindNames == {<<99, 111, 109, 109, 105, 116>>, <<116, 114, 101, 101>>, <<98, 108, 111, 98>>, <<116, 97, 103>>}

\* object::Kind::from_bytes(kind).map_err(Into::into)
KindFromBytes(kind) == IF kind \in KindNames THEN Ok(kind) ELSE ObjectKindError(kind)

----------------------------------------------------------------------------
(* The parser.                                                             *)

\* is_valid with the hex check of the object value left out
is_valid_no_hex(which, f, v) == CASE which = "object" -> f = KwObject /\ Len(v) = HexLen
                                  [] which = "type" -> f = KwType
                                  [] which = "tag" -> f = KwTag
                                  [] which = "tagger" -> f = KwTagger
                                  [] OTHER -> TRUE

\* the closures handed to split2_at_space, by the header they validate
is_valid(which, f, v) == CASE which = "object" -> f = KwObject /\ Len(v) = HexLen /\ FromHex(v).kind = "ok"
                           [] which = "type" -> f = KwType
                           [] which = "tag" -> f = KwTag
                           [] which = "tagger" -> f = KwTagger
                           [] OTHER -> TRUE

\* fn split2_at_space(d, is_valid) -> Result<(&[u8], &[u8]), Error>
split2_at_space(s, which) == LET p == Position(s, SP) IN
                             IF p < 0 THEN ParseError("Invalid tokens - expected 2 when split at space", s)
                             ELSE LET t1 == Slice(s, 0, p)
                                      t2 == SliceFrom(s, p + 1) IN
                                  IF ~is_valid(which, t1, t2) THEN ParseError("Invalid space separated tokens - validation failed", s)
                                  ELSE Ok([t1 |-> t1, t2 |-> t2])

\* the first step of parse_signature: the index of '<', which must not be 0
email_begin_of(s) == LET pos == Position(s, LT) IN
                     IF pos < 0 THEN ParseError("Could not find beginning of email marked by '<'", s)
                     ELSE IF pos = 0 THEN ParseError("Email found in place of author name", s)
                     ELSE Ok(pos)

\* the second step: email_begin + the index of '>' counted from email_begin
email_end_of(s, email_begin) == LET pos == Position(SliceFrom(s, email_begin), GT) IN
                                IF pos < 0 THEN ParseError("Could not find end of email marked by '>'", s)
                                ELSE IF pos >= Len(s) - 1 - ONE_SPACE THEN ParseError("There is no time after email", s)
                                ELSE Ok(email_begin + pos)

\* signature_of with the seconds token parsed before the timezone offset
signature_of_seconds_first(s, email_begin, email_end) == IF ~InRange(s, email_end + ONE_SPACE + 1, Len(s)) THEN Panic("slice index starts out of range")
                                                         ELSE LET toks == split2_at_space(SliceFrom(s, email_end + ONE_SPACE + 1), "any") IN
                                                         IF toks.kind # "ok" THEN toks
                                                         ELSE IF ~IsUtf8(toks.val.t1) THEN Panic("utf-8 encoded time in seconds")
                                                         ELSE IF ~IsUtf8(toks.val.t2) THEN Panic("utf=8 encoded timezone offset")
                                                         ELSE LET tz == parse_timezone_offset(toks.val.t2)
                                                                  secs == ParseU32(toks.val.t1) IN
                                                              IF ~secs.ok THEN ParseError("Could parse to seconds", toks.val.t1)
                                                              ELSE IF tz.kind # "ok" THEN tz
                                                              ELSE Ok([name |-> Slice(s, 0, email_begin - ONE_SPACE),
                                                                       email |-> Slice(s, email_begin + 1, email_end),
                                                                       time |-> [time |-> [hi |-> secs.hi, lo |-> secs.lo], offset |-> tz.val.offset, sign |-> tz.val.sign]])

\* the rest of parse_signature, once email_begin and email_end are known
signature_of(s, email_begin, email_end) == IF ~InRange(s, email_end + ONE_SPACE + 1, Len(s)) THEN Panic("slice index starts out of range")
                                           ELSE LET toks == split2_at_space(SliceFrom(s, email_end + ONE_SPACE + 1), "any") IN
                                           IF toks.kind # "ok" THEN toks
                                           ELSE IF ~IsUtf8(toks.val.t1) THEN Panic("utf-8 encoded time in seconds")
                                           ELSE IF ~IsUtf8(toks.val.t2) THEN Panic("utf=8 encoded timezone offset")
                                           ELSE LET tz == parse_timezone_offset(toks.val.t2)
                                                    secs == ParseU32(toks.val.t1) IN
                                                IF tz.kind # "ok" THEN tz
                                                ELSE IF ~secs.ok THEN ParseError("Could parse to seconds", toks.val.t1)
                                                ELSE Ok([name |-> Slice(s, 0, email_begin - ONE_SPACE),
                                                         email |-> Slice(s, email_begin + 1, email_end),
                                                         time |-> [time |-> [hi |-> secs.hi, lo |-> secs.lo], offset |-> tz.val.offset, sign |-> tz.val.sign]])

\* fn parse_signature(d: &[u8]) -> Result<Signature, Error>
parse_signature(s) == LET b == email_begin_of(s) IN
                      IF b.kind # "ok" THEN b
                      ELSE LET e == email_end_of(s, b.val) IN
                           IF e.kind # "ok" THEN e ELSE signature_of(s, b.val, e.val)

\* the byte offset at which the message starts
msg_begin_of(s, lines) == 0

\* the byte offset at which the message ends and the signature block starts, both markers found
msg_end_of(s, lines) == Len(s)

\* fn parse_message(d, lines) -> Result<(Option<&[u8]>, Option<&[u8]>), Error>; lines: those after the headers
parse_message(s, lines) == IF Len(lines) = 0 THEN Ok([message |-> None, pgp_signature |-> None])
                           ELSE IF Len(lines[1]) # 0 THEN ParseError("Expected empty newline to separate message", lines[1])
                           ELSE LET msg_begin == msg_begin_of(s, lines)
                                    rest == Tail(lines)
                                    b == FindLine(rest, PGP_SIGNATURE_BEGIN)
                                    e == IF b = 0 THEN 0 ELSE FindLine(SubSeq(rest, b + 1, Len(rest)), PGP_SIGNATURE_END) IN
                                IF msg_begin >= Len(s) THEN ParseError("Message separator was not followed by message", s)
                                ELSE IF b = 0 THEN Ok([message |-> Some(Slice(s, msg_begin, Len(s))), pgp_signature |-> None])
                                ELSE IF e = 0 THEN ParseError("Didn't find end of signature marker", s)
                                ELSE LET msg_end == msg_end_of(s, lines) IN
                                     Ok([message |-> Some(Slice(s, msg_begin, msg_end)), pgp_signature |-> Some(SliceFrom(s, msg_end))])

\* the four header lines of from_bytes, validated in order
headers_of(target, kind, name, tagger) == LET t == split2_at_space(target, "object")
                                              k == split2_at_space(kind, "type")
                                              n == split2_at_space(name, "tag")
                                              g == split2_at_space(tagger, "tagger") IN
                                          IF t.kind # "ok" THEN t
                                          ELSE IF k.kind # "ok" THEN k
                                          ELSE IF KindFromBytes(k.val.t2).kind # "ok" THEN KindFromBytes(k.val.t2)
                                          ELSE IF n.kind # "ok" THEN n
                                          ELSE IF g.kind # "ok" THEN g
                                          ELSE LET sig == parse_signature(g.val.t2) IN
                                               IF sig.kind # "ok" THEN sig
                                               ELSE Ok([target |-> t.val.t2, target_kind |-> KindFromBytes(k.val.t2).val, name |-> n.val.t2, signature |-> sig.val])

\* from_bytes validating the object line before it counts the lines
from_bytes_eager(s) == LET lines == Split(s, LF)
                           t == split2_at_space(lines[1], "object") IN
                       IF t.kind # "ok" THEN t
                       ELSE IF Len(lines) < 4 THEN ParseError("Expected four lines: target, type, tag and tagger", s)
                       ELSE LET h == headers_of(lines[1], lines[2], lines[3], lines[4]) IN
                            IF h.kind # "ok" THEN h
                            ELSE LET m == parse_message(s, SubSeq(lines, 5, Len(lines))) IN
                                 IF m.kind # "ok" THEN m
                                 ELSE Ok([target_raw |-> h.val.target, name_raw |-> h.val.name, target_kind |-> h.val.target_kind,
                                          message |-> m.val.message, signature |-> h.val.signature, pgp_signature |-> m.val.pgp_signature])

\* pub fn from_bytes(d: &'data [u8]) -> Result<Tag<'data>, Error>
from_bytes(s) == LET lines == Split(s, LF) IN
                 IF Len(lines) < 4 THEN ParseError("Expected four lines: target, type, tag and tagger", s)
                 ELSE LET h == headers_of(lines[1], lines[2], lines[3], lines[4]) IN
                      IF h.kind # "ok" THEN h
                      ELSE LET m == parse_message(s, SubSeq(lines, 5, Len(lines))) IN
                           IF m.kind # "ok" THEN m
                           ELSE Ok([target_raw |-> h.val.target, name_raw |-> h.val.name, target_kind |-> h.val.target_kind,
                                    message |-> m.val.message, signature |-> h.val.signature, pgp_signature |-> m.val.pgp_signature])

\* pub fn target(&self) -> object::Id
target(tag) == LET r == FromHex(tag.target_raw) IN IF r.kind = "ok" THEN r ELSE Panic("prior validation")

----------------------------------------------------------------------------
(* Inputs.  A buffer is its lines joined by LF.                            *)

MaxBodyLines == 4
MaxSigPrefix == 5
MaxTzChars == 6

SeqsUpTo(S, n) == UNION {[1..k -> S] : k \in 0..n}

RECURSIVE Concat(_)
Concat(ss) == IF Len(ss) = 0 THEN <<>> ELSE Head(ss) \o Concat(Tail(ss))

RECURSIVE Join(_, _)
Join(ls, c) == IF Len(ls) = 0 THEN <<>> ELSE IF Len(ls) = 1 THEN ls[1] ELSE ls[1] \o <<c>> \o Join(Tail(ls), c)

Field(kw, v) == kw \o <<SP>> \o v

Digits10 == <<49, 50, 51, 52, 53, 54, 55, 56, 57, 48>>
Hex40 == Digits10 \o Digits10 \o Digits10 \o Digits10
HexMixed == <<49, 50, 51, 52, 53, 54, 55, 56, 57, 48, 97, 98, 99, 100, 101, 102, 65, 66, 67, 68, 69, 70>> \o SubSeq(Hex40, 1, 18)

\* values of the object header: 40 hex digits, 39, 41, a non-digit 'g', 40 hex digits with a space inside
ObjectValues == {Hex40, HexMixed, SubSeq(Hex40, 1, 39), Hex40 \o <<49>>, SubSeq(Hex40, 1, 39) \o <<103>>, SubSeq(Hex40, 1, 20) \o <<SP>> \o SubSeq(Hex40, 1, 19)}

ObjectLines == {Field(KwObject, v) : v \in ObjectValues} \cup {Field(<<116, 114, 101, 101>>, Hex40), KwObject}

\* "type commit", "type tag", "type bogus", "typo commit"
TypeLines == {Field(KwType, <<99, 111, 109, 109, 105, 116>>), Field(KwType, KwTag), Field(KwType, <<98, 111, 103, 117, 115>>), Field(<<116, 121, 112, 111>>, <<99, 111, 109, 109, 105, 116>>)}

\* "tag v1.0", "tags v1.0", "tag"
TagLines == {Field(KwTag, <<118, 49, 46, 48>>), Field(<<116, 97, 103, 115>>, <<118, 49, 46, 48>>), KwTag}

\* "A U Thor <author@example.com> 1112911993 +0200"
GoodTagger == <<65, 32, 85, 32, 84, 104, 111, 114, 32, 60, 97, 117, 116, 104, 111, 114, 64, 101, 120, 97, 109, 112, 108, 101, 46, 99, 111, 109, 62, 32, 49, 49, 49, 50, 57, 49, 49, 57, 57, 51, 32, 43, 48, 50, 48, 48>>

\* tagger values: the good one, then "A <e> x +02", "A <e> x +0200", "A <e> 1 +02", "A e 1 +0200", "<e> 1 +0200",
\* "A <e 1 +0200", "A <e>", "A <e> \xff +0200", "A <e> 1 +0035791395", "Ab<e>x1 +0200", "A <e> 1 +00-30", "A <e> 1"
TaggerValues == {GoodTagger,
                 <<65, 32, 60, 101, 62, 32, 120, 32, 43, 48, 50>>,
                 <<65, 32, 60, 101, 62, 32, 120, 32, 43, 48, 50, 48, 48>>,
                 <<65, 32, 60, 101, 62, 32, 49, 32, 43, 48, 50>>,
                 <<65, 32, 101, 32, 49, 32, 43, 48, 50, 48, 48>>,
                 <<60, 101, 62, 32, 49, 32, 43, 48, 50, 48, 48>>,
                 <<65, 32, 60, 101, 32, 49, 32, 43, 48, 50, 48, 48>>,
                 <<65, 32, 60, 101, 62>>,
                 <<65, 32, 60, 101, 62, 32, 255, 32, 43, 48, 50, 48, 48>>,
                 <<65, 32, 60, 101, 62, 32, 49, 32, 43, 48, 48, 51, 53, 55, 57, 49, 51, 57, 53>>,
                 <<65, 98, 60, 101, 62, 120, 49, 32, 43, 48, 50, 48, 48>>,
                 <<65, 32, 60, 101, 62, 32, 49, 32, 43, 48, 48, 45, 51, 48>>,
                 <<65, 32, 60, 101, 62, 32, 49>>}

\* "tagger <value>", "tagged <good value>", "tagger"
TaggerLines == {Field(KwTagger, v) : v \in TaggerValues} \cup {Field(<<116, 97, 103, 103, 101, 100>>, GoodTagger), KwTagger}

HeaderCombos == {<<o, t, n, g>> : o \in ObjectLines, t \in TypeLines, n \in TagLines, g \in TaggerLines}

GoodHeaders == <<Field(KwObject, Hex40), Field(KwType, <<99, 111, 109, 109, 105, 116>>), Field(KwTag, <<118, 49, 46, 48>>), Field(KwTagger, GoodTagger)>>

\* "Release v1.0"
TextLine == <<82, 101, 108, 101, 97, 115, 101, 32, 118, 49, 46, 48>>

\* the lines a body is made of: the empty line, text, the two markers
BodyLines == {<<>>, TextLine, PGP_SIGNATURE_BEGIN, PGP_SIGNATURE_END}

Bodies == SeqsUpTo(BodyLines, MaxBodyLines)

ShortBodies == {<<>>, <<<<>>>>, <<TextLine>>, <<<<>>, TextLine, <<>>>>}

\* buffers of four or more lines, and buffers cut to fewer than four lines (k = 0: the empty buffer)
TagInputs == {Join(h \o b, LF) : h \in HeaderCombos, b \in ShortBodies}
             \cup {Join(GoodHeaders \o b, LF) : b \in Bodies}
             \cup {Join(SubSeq(h, 1, k), LF) : h \in HeaderCombos, k \in 0..3}

\* what follows the name/email part of a tagger value
TimeSuffixes == {<<>>, <<49>>, <<32, 49>>,
                 <<49, 32, 43, 48, 50, 48, 48>>,
                 <<32, 49, 32, 43, 48, 50, 48, 48>>,
                 <<120, 49, 32, 43, 48, 50, 48, 48>>,
                 <<32, 120, 32, 43, 48, 50, 48, 48>>,
                 <<32, 49, 32, 43, 48, 50>>,
                 <<32, 120, 32, 43, 48, 50>>,
                 <<32, 255, 32, 43, 48, 50, 48, 48>>}

\* 'A', ' ', '<', '>'
SigBytes == {65, SP, LT, GT}

SigInputs == {q \o t : q \in SeqsUpTo(SigBytes, MaxSigPrefix), t \in TimeSuffixes}

\* the characters of a timezone string: '+', '-', '0', '3', and the two-byte U+00E9
TzChars == {<<PLUS>>, <<MINUS>>, <<48>>, <<51>>, <<195, 169>>}

\* "+0035791395", "-0035791395", "+002147483648", "+0200 "
TzLong == {<<43, 48, 48, 51, 53, 55, 57, 49, 51, 57, 53>>, <<45, 48, 48, 51, 53, 55, 57, 49, 51, 57, 53>>,
           <<43, 48, 48, 50, 49, 52, 55, 52, 56, 51, 54, 52, 56>>, <<43, 48, 50, 48, 48, 32>>}

\* a &str is well-formed UTF-8: whole characters only
TzInputs == {Concat(cs) : cs \in SeqsUpTo(TzChars, MaxTzChars)} \cup TzLong

----------------------------------------------------------------------------
(* The state machine: a buffer is handed to an entry point, which returns. *)

NoResult == [kind |-> "none"]

InitWith(inputs) == /\ d \in inputs
                    /\ overflow_checks \in BOOLEAN
                    /\ pc = "start"
                    /\ result = NoResult
                    /\ id = NoResult

Init == InitWith(TagInputs)

\* Tag::from_bytes(d)
FromBytes == /\ pc = "start"
             /\ result' = from_bytes(d)
             /\ pc' = "parsed"
             /\ UNCHANGED <<d, overflow_checks, id>>

\* tag.target() on the Tag that from_bytes returned
Target == /\ pc = "parsed"
          /\ result.kind = "ok"
          /\ id' = target(result.val)
          /\ pc' = "decoded"
          /\ UNCHANGED <<d, overflow_checks, result>>

Next == FromBytes \/ Target

Spec == Init /\ [][Next]_vars

InitSig == InitWith(SigInputs)

\* parse_signature(d)
ParseSignature == /\ pc = "start"
                  /\ result' = parse_signature(d)
                  /\ pc' = "parsed"
                  /\ UNCHANGED <<d, overflow_checks, id>>

NextSig == ParseSignature

SpecSig == InitSig /\ [][NextSig]_vars

InitTz == InitWith(TzInputs)

\* parse_timezone_offset(d)
ParseTimezoneOffset == /\ pc = "start"
                       /\ result' = parse_timezone_offset(d)
                       /\ pc' = "parsed"
                       /\ UNCHANGED <<d, overflow_checks, id>>

NextTz == ParseTimezoneOffset

SpecTz == InitTz /\ [][NextTz]_vars

----------------------------------------------------------------------------
(* What the claims speak of, read off the input buffer.                    *)

Returned == pc # "start"

Lines == Split(d, LF)

CountLF == Cardinality({i \in 1..Len(d) : d[i] = LF})

\* the bytes that follow the empty separator line (the fifth line), if the buffer has one
HasSeparator == Len(Lines) >= 5 /\ Lines[5] = <<>>

Body == IF Len(Lines) >= 6 THEN Join(SubSeq(Lines, 6, Len(Lines)), LF) ELSE <<>>

BodyLinesOf == SubSeq(Lines, 6, Len(Lines))

BeginAt == FindLine(BodyLinesOf, PGP_SIGNATURE_BEGIN)

EndAfterBegin == IF BeginAt = 0 THEN 0 ELSE FindLine(SubSeq(BodyLinesOf, BeginAt + 1, Len(BodyLinesOf)), PGP_SIGNATURE_END)

ExpectedFourLines == ParseError("Expected four lines: target, type, tag and tagger", d)

----------------------------------------------------------------------------
(* C1: for an accepted buffer whose four headers are followed by an empty  *)
(* line and then text, message is exactly the bytes after the separator.   *)
C1_MessageIsTextAfterSeparator == (Returned /\ result.kind = "ok" /\ HasSeparator /\ Len(Body) > 0 /\ BeginAt = 0) => result.val.message = Some(Body)

(* C2: from_bytes ends by returning a Tag or an Error for every buffer: no *)
(* step terminates abnormally.                                             *)
C2_NoAbnormalTermination == Returned => result.kind \in {"ok", "err"}

(* C3: a returned Tag's target_raw is 40 hex digits, it is the value of    *)
(* the object header line, and Tag::target never fails on it.              *)
C3_TargetRawIsValidHex == (Returned /\ result.kind = "ok") =>
                              /\ Len(result.val.target_raw) = 40
                              /\ \A i \in 1..Len(result.val.target_raw) : IsHexDigit(result.val.target_raw[i])
                              /\ Len(d) >= 47
                              /\ SubSeq(d, 1, 47) = KwObject \o <<SP>> \o result.val.target_raw
                              /\ (Len(d) > 47 => d[48] = LF)
                              /\ (pc = "decoded" => (id.kind = "ok" /\ Len(id.val) = 20 /\ \A i \in 1..20 : id.val[i] \in 0..255))

C3_Witness == pc = "decoded" /\ id.kind = "ok" /\ result.val.target_raw = HexMixed /\ id.val[6] = 171

(* C4: a buffer with fewer than four lines fails with the four-lines parse *)
(* error carrying the whole buffer, whatever the lines hold.               *)
C4_FewerThanFourLines == (Returned /\ CountLF < 3) => result = ExpectedFourLines

C4_Witness == Returned /\ CountLF = 2 /\ Lines[1] = KwObject /\ Lines[2] \in TypeLines /\ result = ExpectedFourLines

(* C5: parse_signature returns a parse error when the line has no '<', or  *)
(* starts with '<', or has no '>' after the '<', or when the '>' closing   *)
(* the email is the last or second-to-last byte, wherever the '<' is.      *)
C5_FirstLT == Position(d, LT)

C5_ClosingGT == IF C5_FirstLT < 0 THEN -1 ELSE LET q == Position(SliceFrom(d, C5_FirstLT), GT) IN IF q < 0 THEN -1 ELSE C5_FirstLT + q

C5_Rejected == \/ C5_FirstLT < 0
               \/ C5_FirstLT = 0
               \/ C5_ClosingGT < 0
               \/ C5_ClosingGT >= Len(d) - 2

C5_SignatureRejection == (Returned /\ C5_Rejected) => (result.kind = "err" /\ result.variant = "ParseError")

(* C6: a returned Tag has message = None exactly when no lines follow the  *)
(* blank separator line: header-only input and headers plus only the       *)
(* separator both give None.                                               *)
C6_NoLinesFollow == Len(Body) = 0

C6_MessageNoneIffNoBody == (Returned /\ result.kind = "ok") => (result.val.message = None <=> C6_NoLinesFollow)

(* C7: with a begin marker line and a later end marker line after the      *)
(* separator, message is the text before the begin marker and              *)
(* pgp_signature the non-empty marker block, the two covering the body     *)
(* without overlap; with no begin marker, pgp_signature is None and        *)
(* message is everything after the separator.                              *)
C7_MessageAndSignatureSplit == (Returned /\ result.kind = "ok" /\ HasSeparator /\ Len(Body) > 0) =>
                                   IF BeginAt > 0 /\ EndAfterBegin > 0
                                   THEN /\ result.val.message.some /\ result.val.pgp_signature.some
                                        /\ result.val.message.val \o result.val.pgp_signature.val = Body
                                        /\ StartsWith(result.val.pgp_signature.val, PGP_SIGNATURE_BEGIN)
                                        /\ result.val.message.val = Join(SubSeq(BodyLinesOf, 1, BeginAt - 1) \o <<<<>>>>, LF)
                                   ELSE BeginAt = 0 => (result.val.pgp_signature = None /\ result.val.message = Some(Body))

(* C8: parse_timezone_offset rejects strings shorter than 5 bytes or not   *)
(* starting with '+'/'-'; otherwise sign is Minus iff the first byte is    *)
(* '-' and offset = hours*3600 + minutes*60, hours being the first three   *)
(* bytes read as a signed integer and minutes the remaining bytes read as  *)
(* an unsigned decimal integer; a part that is no such number gives the    *)
(* parse error naming it and carrying its bytes.  (Stated for strings of   *)
(* ASCII bytes and, as to the numeric equation, for minutes of at most 8   *)
(* digits, whose offset fits 32 bits.)                                     *)
RECURSIVE C8_Decimal(_)
C8_Decimal(s) == IF Len(s) = 0 THEN 0 ELSE C8_Decimal(SubSeq(s, 1, Len(s) - 1)) * 10 + (s[Len(s)] - 48)

C8_AllDigits(s) == Len(s) > 0 /\ \A i \in 1..Len(s) : IsDigit(s[i])

C8_Hours == IF d[1] = MINUS THEN -C8_Decimal(SubSeq(d, 2, 3)) ELSE C8_Decimal(SubSeq(d, 2, 3))

C8_Ascii == \A i \in 1..Len(d) : d[i] < 128

C8_TimezoneOffset == (Returned /\ C8_Ascii) =>
                         IF Len(d) < 5 \/ d[1] \notin {PLUS, MINUS} THEN result.kind = "err"
                         ELSE IF ~C8_AllDigits(SubSeq(d, 2, 3)) THEN result = ParseError("invalid 'hours' string", SubSeq(d, 1, 3))
                         ELSE IF ~C8_AllDigits(SubSeq(d, 4, Len(d))) THEN result = ParseError("invalid 'minutes' string", SubSeq(d, 4, Len(d)))
                         ELSE Len(d) - 3 <= 8 =>
                                  result = Ok([offset |-> C8_Hours * 3600 + C8_Decimal(SubSeq(d, 4, Len(d))) * 60,
                                               sign |-> IF d[1] = MINUS THEN "Minus" ELSE "Plus"])

(* C9: an accepted tagger value is name ++ " <" ++ email ++ "> " ++        *)
(* seconds ++ " " ++ offset: name is what precedes the first '<' less one  *)
(* separating space, email what lies between that '<' and the next '>'.    *)
C9_NameEmailRoundTrip == (Returned /\ result.kind = "ok") =>
                             LET n == result.val.name
                                 e == result.val.email
                                 k == Len(n) + Len(e) + 4
                                 rest == SliceFrom(d, k) IN
                             /\ Len(d) >= k
                             /\ SubSeq(d, 1, k) = n \o <<SP, LT>> \o e \o <<GT, SP>>
                             /\ Position(n, LT) < 0
                             /\ Position(e, GT) < 0
                             /\ Position(rest, SP) > 0

----------------------------------------------------------------------------
(* C10: the checks of from_bytes, each read off the buffer on its own; a   *)
(* check whose tokens an earlier check could not produce counts as passed. *)

Passed == Ok(TRUE)

Verdict(r) == IF r.kind = "ok" THEN Passed ELSE r

\* the verdict of each check on the buffer whose lines are ls
C10_Checks(ls) == LET line(i) == IF Len(ls) >= i THEN ls[i] ELSE <<>>
                      typ == split2_at_space(line(2), "type")
                      sp == Position(line(4), SP)
                      value == IF sp < 0 THEN <<>> ELSE SliceFrom(line(4), sp + 1)
                      begin == email_begin_of(value)
                      end == IF begin.kind # "ok" THEN begin ELSE email_end_of(value, begin.val)
                      split == IF end.val + 2 > Len(value) THEN Panic("slice index starts out of range") ELSE split2_at_space(SliceFrom(value, end.val + 2), "any")
                      toks == IF end.kind # "ok" THEN Panic("no tokens")
                              ELSE IF split.kind # "ok" THEN split
                              ELSE IF ~IsUtf8(split.val.t1) THEN Panic("utf-8 encoded time in seconds")
                              ELSE IF ~IsUtf8(split.val.t2) THEN Panic("utf=8 encoded timezone offset")
                              ELSE split
                      body == SubSeq(ls, 6, Len(ls))
                      b == FindLine(body, PGP_SIGNATURE_BEGIN)
                      e == IF b = 0 THEN 0 ELSE FindLine(SubSeq(body, b + 1, Len(body)), PGP_SIGNATURE_END) IN
                  [object |-> Verdict(split2_at_space(line(1), "object")),
                   type |-> IF typ.kind # "ok" THEN typ ELSE Verdict(KindFromBytes(typ.val.t2)),
                   tag |-> Verdict(split2_at_space(line(3), "tag")),
                   tagger |-> Verdict(split2_at_space(line(4), "tagger")),
                   name_email |-> Verdict(end),
                   time_split |-> IF end.kind # "ok" THEN Passed ELSE Verdict(toks),
                   seconds |-> IF toks.kind # "ok" \/ ParseU32(toks.val.t1).ok THEN Passed ELSE ParseError("Could parse to seconds", toks.val.t1),
                   offset |-> IF toks.kind # "ok" THEN Passed ELSE Verdict(parse_timezone_offset(toks.val.t2)),
                   separator |-> IF Len(ls) >= 5 /\ Len(ls[5]) # 0 THEN ParseError("Expected empty newline to separate message", ls[5]) ELSE Passed,
                   markers |-> IF Len(ls) >= 5 /\ Len(ls[5]) = 0 /\ b > 0 /\ e = 0 THEN ParseError("Didn't find end of signature marker", d) ELSE Passed]

\* the verdict of the first check of cs that did not pass
FirstFailure(cs) == IF \E i \in 1..Len(cs) : cs[i] # Passed THEN cs[CHOOSE i \in 1..Len(cs) : cs[i] # Passed /\ \A j \in 1..(i - 1) : cs[j] = Passed] ELSE Passed

InputOrder(c) == <<c.object, c.type, c.tag, c.tagger, c.name_email, c.time_split, c.seconds, c.offset, c.separator, c.markers>>

CodeOrder(c) == <<c.object, c.type, c.tag, c.tagger, c.name_email, c.time_split, c.offset, c.seconds, c.separator, c.markers>>

(* C10 as stated: from_bytes returns the failure of the first malformed    *)
(* field in input order (object, type, tag, tagger keyword, name/email,    *)
(* seconds token, timezone-offset token, separator, markers), unchanged.   *)
C10_FirstFailureInInputOrder == Returned => LET ls == Lines IN Len(ls) >= 4 => Verdict(result) = FirstFailure(InputOrder(C10_Checks(ls)))

(* C10 as amended: from_bytes ends with the outcome of the first failing   *)
(* check in the order object, type, tag, tagger keyword, name/email, time  *)
(* tokens, timezone-offset token, seconds token, separator, markers: the   *)
(* offset token is checked before the seconds token.                       *)
C10_FirstFailureInCodeOrder == Returned => LET ls == Lines IN Len(ls) >= 4 => Verdict(result) = FirstFailure(CodeOrder(C10_Checks(ls)))

\* a tagger line whose seconds token and offset token are both invalid: the offset error is returned
C10_Witness == Returned /\ result.kind = "err" /\ LET ls == Lines IN Len(ls) >= 4 /\ LET c == C10_Checks(ls) IN c.seconds # Passed /\ c.offset # Passed /\ result = c.offset

====
